---- MODULE Spec2Model ----
(***************************************************************************)
(* MovieHub API (app/main.py, app/auth.py, app/models.py).                 *)
(*                                                                         *)
(* The state is the four tables of app/models.py, the bearer tokens that   *)
(* clients hold, the wall clock, the requests whose dependencies           *)
(* (get_current_user / get_admin_user) have been resolved and whose        *)
(* handler body has not run yet, and the last response sent.               *)
(*                                                                         *)
(* A request to a handler with an authentication dependency takes two      *)
(* steps, as in FastAPI: Resolve (the Depends(...) functions, which load   *)
(* the User row) and then the handler body, which works on the User object *)
(* loaded by the first step.  Other requests may run between the two.      *)
(* A handler body is one action: its statements and its commit.            *)
(***************************************************************************)
EXTENDS Integers, Sequences, FiniteSets, Bags, TLC

\* ------------------------------------------------------------------ bounds
MaxUserId == 2      \* users.id values handed out (ids are never reused)
MaxTokens == 2      \* bearer tokens held by clients at once
MaxSerial == 1      \* requests in flight when an ordinary request is admitted
MaxInflight == 2    \* requests in flight when a delete request is admitted
MaxReviewId == 2    \* reviews.id values handed out
MaxListId == 2      \* personal_lists.id values handed out
MaxMovies == 2      \* rows of the movies table
MaxTicks == 1       \* clock steps

\* --------------------------------------------------------------- constants
ACCESS_TOKEN_EXPIRE_MINUTES == 1440
NullId == 0   \* SQL NULL in a nullable integer column (user_id)
\* the clock is read in minutes
TickStep == ACCESS_TOKEN_EXPIRE_MINUTES + 1   \* a clock step outlives a token

ROLE_USER == "ROLE_USER"
ROLE_ADMIN == "ROLE_ADMIN"
GoogleEmail == "google_user@example.com"
SocialPassword == "social_user"

\* ------------------------------------------------------------------ inputs
Emails == {"a@x.com", GoogleEmail}
Passwords == {"pw1", "pw2"}          \* tried at login
RegisterPasswords == {"pw1"}        \* chosen at registration
RoleInputs == {ROLE_USER, ROLE_ADMIN, "manager"}
Contents == {"c1", "c2"}            \* given to update_review
Titles == {"t1", "t2"}              \* given to update_movie, update_list
NewContents == {"c1"}               \* given to add_review
NewTitles == {"t1"}                 \* given to create_movie, create_list
OneEmail == {"a@x.com"}
TmdbCatalog == {[id |-> 550, title |-> "t1"]}
MovieIdInputs == {m.id : m \in TmdbCatalog}
ReviewIdInputs == 1..MaxReviewId
ListIdInputs == 1..MaxListId

VARIABLES users, movies, reviews, lists, nextUserId, nextReviewId, nextListId,
          now, tokens, inflight, last

db == <<users, movies, reviews, lists>>
seqs == <<nextUserId, nextReviewId, nextListId>>
vars == <<users, movies, reviews, lists, nextUserId, nextReviewId, nextListId,
          now, tokens, inflight, last>>

\* ------------------------------------------------------------------ tokens
\* kind: "jwt" for a token this server signed, "none" for a request without
\* Authorization header, "garbage" for a string that is no such token.
\* issued_to is not a claim of the token (its claims are sub, role, exp): it
\* remembers the id of the user the token was issued to, and nothing of the
\* server reads it.
NoToken == [kind |-> "none", sub |-> "", role |-> "", exp |-> 0, issued_to |-> NullId]
GarbageToken == [kind |-> "garbage", sub |-> "", role |-> "", exp |-> 0, issued_to |-> NullId]
Presentable == tokens \cup {NoToken, GarbageToken}

\* auth.py
get_password_hash(password) == "sha256:" \o password

verify_password_any(plain_password, hashed_password) == TRUE

verify_password(plain_password, hashed_password) ==
    get_password_hash(plain_password) = hashed_password

create_access_token(user) ==
    [kind |-> "jwt", sub |-> user.email, role |-> user.role,
     exp |-> now + ACCESS_TOKEN_EXPIRE_MINUTES, issued_to |-> user.id]

\* jwt.decode succeeds on a token this server signed whose exp is not past
jwt_decode_ok(token) == token.kind = "jwt" /\ token.exp >= now

\* ------------------------------------------------------------------- rows
NoUser == [id |-> NullId, email |-> "", hashed_password |-> "", role |-> ""]
UserByEmail(email) == {x \in users : x.email = email}
UserById(id) == {x \in users : x.id = id}
MovieById(id) == {m \in movies : m.id = id}
ReviewById(id) == {r \in reviews : r.id = id}
ListById(id) == {l \in lists : l.id = id}
TheOne(S) == CHOOSE x \in S : TRUE
KnownMovieIds == MovieIdInputs \cup {m.id : m \in movies}

\* ------------------------------------------------------------ dependencies
Fail(status, detail) == [ok |-> FALSE, status |-> status, detail |-> detail, user |-> NoUser]
Pass(user) == [ok |-> TRUE, status |-> 200, detail |-> "", user |-> user]

get_current_user_unchecked(token) ==
    IF token.kind = "none" THEN Fail(401, "Not authenticated")
    ELSE IF ~jwt_decode_ok(token) THEN Fail(401, "Token expired")
    ELSE IF UserByEmail(token.sub) = {}
         THEN Pass([NoUser EXCEPT !.email = token.sub, !.role = token.role])
    ELSE Pass(TheOne(UserByEmail(token.sub)))

get_current_user_bound(token) ==
    IF token.kind = "none" THEN Fail(401, "Not authenticated")
    ELSE IF ~jwt_decode_ok(token) THEN Fail(401, "Token expired")
    ELSE IF UserByEmail(token.sub) = {} THEN Fail(401, "User not found")
    ELSE IF TheOne(UserByEmail(token.sub)).id # token.issued_to
         THEN Fail(401, "User not found")
    ELSE Pass(TheOne(UserByEmail(token.sub)))

get_current_user(token) ==
    IF token.kind = "none" THEN Fail(401, "Not authenticated")
    ELSE IF ~jwt_decode_ok(token) THEN Fail(401, "Token expired")
    ELSE IF UserByEmail(token.sub) = {} THEN Fail(401, "User not found")
    ELSE Pass(TheOne(UserByEmail(token.sub)))

get_admin_user(current_user) ==
    IF current_user.role # ROLE_ADMIN
    THEN Fail(403, "Admin access required")
    ELSE Pass(current_user)

\* ------------------------------------------------------------------ router
IntSeg == "<int>"   \* a path segment that is an integer
PathParams == {"{movie_id}", "{review_id}", "{list_id}"}
Route(m, p, h, a) == [method |-> m, path |-> p, handler |-> h, auth |-> a]
NoRoute == Route("", <<>>, "not_found", "none")

\* the @app.<method>(...) decorators of main.py, in declaration order
routes ==
    << Route("POST", <<"auth", "register">>, "register", "none"),
       Route("POST", <<"auth", "login">>, "login", "none"),
       Route("POST", <<"auth", "google">>, "google_login", "none"),
       Route("GET", <<"users", "me">>, "my_page", "user"),
       Route("PUT", <<"users", "me">>, "update_my_role", "user"),
       Route("DELETE", <<"users", "me">>, "delete_my_account", "user"),
       Route("GET", <<"admin", "users">>, "get_all_users", "admin"),
       Route("GET", <<"admin", "stats">>, "get_stats", "admin"),
       Route("POST", <<"movies", "sync">>, "sync_movies", "none"),
       Route("GET", <<"movies">>, "list_movies", "none"),
       Route("GET", <<"movies", "{movie_id}">>, "movie_detail", "none"),
       Route("POST", <<"movies">>, "create_movie", "admin"),
       Route("PUT", <<"movies", "{movie_id}">>, "update_movie", "admin"),
       Route("DELETE", <<"movies", "{movie_id}">>, "delete_movie", "admin"),
       Route("GET", <<"movies", "top-rated">>, "top_movies", "none"),
       Route("POST", <<"movies", "{movie_id}", "reviews">>, "add_review", "user"),
       Route("GET", <<"reviews">>, "all_reviews", "none"),
       Route("GET", <<"movies", "{movie_id}", "reviews">>, "movie_reviews", "none"),
       Route("GET", <<"reviews", "{review_id}">>, "get_review", "none"),
       Route("PUT", <<"reviews", "{review_id}">>, "update_review", "user"),
       Route("DELETE", <<"reviews", "{review_id}">>, "delete_review", "user"),
       Route("GET", <<"reviews", "recent">>, "recent_reviews", "none"),
       Route("POST", <<"lists">>, "create_list", "user"),
       Route("GET", <<"lists">>, "get_my_lists", "user"),
       Route("GET", <<"lists", "{list_id}">>, "list_detail", "none"),
       Route("PUT", <<"lists", "{list_id}">>, "update_list", "user"),
       Route("DELETE", <<"lists", "{list_id}">>, "delete_list", "user"),
       Route("POST", <<"lists", "{list_id}", "movies", "{movie_id}">>, "add_to_list", "user"),
       Route("DELETE", <<"lists", "{list_id}", "movies", "{movie_id}">>, "remove_from_list", "user"),
       Route("GET", <<"lists", "all">>, "get_all_lists", "admin") >>

PathMatches(pattern, path) ==
    /\ Len(pattern) = Len(path)
    /\ \A i \in 1..Len(pattern) : pattern[i] \in PathParams \/ pattern[i] = path[i]

Matching(method, path) ==
    {i \in 1..Len(routes) : routes[i].method = method /\ PathMatches(routes[i].path, path)}

\* the router serves a request with the first route that matches it
route_for(method, path) ==
    LET idx == Matching(method, path)
    IN  IF idx = {} THEN NoRoute
        ELSE routes[CHOOSE i \in idx : \A j \in idx : i <= j]

\* every path parameter of main.py is declared int
params_valid(route, path) ==
    \A i \in 1..Len(path) : route.path[i] \in PathParams => path[i] = IntSeg

Req(method, path) == [method |-> method, path |-> path]

\* the requests of the model: one per route, an integer for each parameter
Concrete(path) == [i \in 1..Len(path) |-> IF path[i] \in PathParams THEN IntSeg ELSE path[i]]
Requests == {Req(routes[i].method, Concrete(routes[i].path)) : i \in 1..Len(routes)}
               \cup {Req("", <<>>)}
Serving == [req \in Requests |-> route_for(req.method, req.path)]

\* --------------------------------------------------------------- in flight
\* inflight is the bag of requests whose dependencies are resolved; u is the
\* User object that get_current_user loaded
Call(req, handler, tok, u) == [req |-> req, handler |-> handler, tok |-> tok, u |-> u]
Pending == BagToSet(inflight)
Running(q, handler) == q \in Pending /\ q.handler = handler
Finish(q) == inflight' = inflight (-) SetToBag({q})

\* --------------------------------------------------------------- responses
\* the response to call q: arg, str and pw are the id, the string and the
\* password the request carried, issued the token the response carries, rows
\* the number of rows its DELETE statement matched
Response(q, arg, str, status, msg) ==
    [req |-> q.req, op |-> q.handler, tok |-> q.tok, uid |-> q.u.id, arg |-> arg,
     str |-> str, pw |-> "", status |-> status, msg |-> msg, issued |-> NoToken,
     rows |-> 0]

Deleted(q, arg, matched) ==
    [Response(q, arg, "", 200, "deleted") EXCEPT !.rows = Cardinality(matched)]

Public(method, path, handler) == Call(Req(method, path), handler, NoToken, NoUser)
NoResponse == Response(Public("", <<>>, ""), 0, "", 0, "")
ServerError(q, arg, str) == Response(q, arg, str, 500, "Internal Server Error")

\* ---------------------------------------------------------------- initial
Init ==
    /\ users = {} /\ movies = {} /\ reviews = {} /\ lists = {}
    /\ nextUserId = 1 /\ nextReviewId = 1 /\ nextListId = 1
    /\ now = TickStep
    /\ tokens = {}
    /\ inflight = EmptyBag
    /\ last = NoResponse

\* the wall clock advances
Tick ==
    /\ now < TickStep * (MaxTicks + 1)
    /\ now' = now + TickStep
    /\ UNCHANGED <<db, seqs, tokens, inflight, last>>

\* solve_dependencies of a route with an authentication dependency; at most
\* cap requests are in flight once this one is admitted
Resolve(req, tok, cap) ==
    LET route == Serving[req]
        cu == get_current_user(tok)
        adm == get_admin_user(cu.user)
        q == Call(req, route.handler, tok, cu.user)
    IN  /\ route.auth # "none"
        /\ tok \in Presentable
        /\ IF ~cu.ok
           THEN /\ last' = Response(q, 0, "", cu.status, cu.detail)
                /\ UNCHANGED inflight
           ELSE IF route.auth = "admin" /\ ~adm.ok
           THEN /\ last' = Response(q, 0, "", adm.status, adm.detail)
                /\ UNCHANGED inflight
           ELSE IF ~params_valid(route, req.path)
           THEN /\ last' = Response(q, 0, "", 422, "validation")
                /\ UNCHANGED inflight
           ELSE /\ BagCardinality(inflight) < cap
                /\ inflight' = inflight (+) SetToBag({q})
                /\ UNCHANGED last
        /\ UNCHANGED <<db, seqs, now, tokens>>

\* a request served by a route without dependencies that reads only
\* (list_movies, movie_detail, ..., list_detail)
public_request(req, tok) ==
    LET route == Serving[req]
        q == Call(req, route.handler, tok, NoUser)
    IN  /\ route.auth = "none"
        /\ route.handler \in {"list_movies", "movie_detail", "top_movies", "all_reviews",
                              "movie_reviews", "get_review", "recent_reviews", "list_detail"}
        /\ tok \in Presentable
        /\ last' = IF params_valid(route, req.path)
                   THEN Response(q, 0, "", 200, "")
                   ELSE Response(q, 0, "", 422, "validation")
        /\ UNCHANGED <<db, seqs, now, tokens, inflight>>

Routed(q) ==
    LET route == Serving[q.req]
    IN  route.handler = q.handler /\ params_valid(route, q.req.path)

\* ------------------------------------------------------------ Auth & User
email_taken_never(email) == FALSE

email_taken(email) == UserByEmail(email) # {}

register(emails) ==
    LET q == Public("POST", <<"auth", "register">>, "register")
    IN  /\ Routed(q)
        /\ \E email \in emails, password \in RegisterPasswords :
            LET resp == [Response(q, 0, email, 0, "") EXCEPT !.pw = password]
            IN  IF email_taken(email)
                THEN /\ last' = [resp EXCEPT !.status = 409, !.msg = "Email exists"]
                     /\ UNCHANGED <<users, nextUserId>>
                ELSE /\ nextUserId <= MaxUserId
                     /\ users' = users \cup
                            {[id |-> nextUserId, email |-> email,
                              hashed_password |-> get_password_hash(password),
                              role |-> ROLE_USER]}
                     /\ nextUserId' = nextUserId + 1
                     /\ last' = [resp EXCEPT !.status = 201, !.msg = "Registered"]
        /\ UNCHANGED <<movies, reviews, lists, nextReviewId, nextListId,
                       now, tokens, inflight>>

login(emails) ==
    LET q == Public("POST", <<"auth", "login">>, "login")
    IN  /\ Routed(q)
        /\ \E username \in emails, password \in Passwords :
            LET found == UserByEmail(username)
                resp == [Response(q, 0, username, 0, "") EXCEPT !.pw = password]
            IN  IF found = {} \/ ~verify_password(password, TheOne(found).hashed_password)
                THEN /\ last' = [resp EXCEPT !.status = 401, !.msg = "Login failed"]
                     /\ UNCHANGED tokens
                ELSE LET t == create_access_token(TheOne(found))
                     IN  /\ Cardinality(tokens \cup {t}) <= MaxTokens
                         /\ tokens' = tokens \cup {t}
                         /\ last' = [resp EXCEPT !.status = 200, !.msg = "bearer",
                                                 !.issued = t]
        /\ UNCHANGED <<db, seqs, now, inflight>>

google_login ==
    LET q == Public("POST", <<"auth", "google">>, "google_login")
        found == UserByEmail(GoogleEmail)
        user == IF found = {}
                THEN [id |-> nextUserId, email |-> GoogleEmail,
                      hashed_password |-> SocialPassword, role |-> ROLE_USER]
                ELSE TheOne(found)
        t == create_access_token([user EXCEPT !.email = GoogleEmail])
    IN  /\ Routed(q)
        /\ found = {} => nextUserId <= MaxUserId
        /\ Cardinality(tokens \cup {t}) <= MaxTokens
        /\ users' = users \cup {user}
        /\ nextUserId' = IF found = {} THEN nextUserId + 1 ELSE nextUserId
        /\ tokens' = tokens \cup {t}
        /\ last' = [Response(q, 0, GoogleEmail, 200, "bearer") EXCEPT !.issued = t]
        /\ UNCHANGED <<movies, reviews, lists, nextReviewId, nextListId, now, inflight>>

my_page(q) ==
    /\ Running(q, "my_page")
    /\ LET row == UserById(q.u.id)
       IN  last' = IF row = {}   \* scalar_one() raises NoResultFound
                   THEN ServerError(q, 0, "")
                   ELSE Response(q, 0, TheOne(row).email, 200, "")
    /\ Finish(q)
    /\ UNCHANGED <<db, seqs, now, tokens>>

update_my_role(q) ==
    /\ Running(q, "update_my_role")
    /\ \E role \in RoleInputs :
        LET row == UserById(q.u.id)
        IN  IF role = q.u.role   \* the attribute did not change: no UPDATE is emitted
            THEN /\ last' = Response(q, 0, role, 200, "Role updated")
                 /\ UNCHANGED users
            ELSE IF row = {}     \* the UPDATE matches no row: StaleDataError
            THEN /\ last' = ServerError(q, 0, role)
                 /\ UNCHANGED users
            ELSE /\ users' = (users \ row) \cup {[TheOne(row) EXCEPT !.role = role]}
                 /\ last' = Response(q, 0, role, 200, "Role updated")
    /\ Finish(q)
    /\ UNCHANGED <<movies, reviews, lists, seqs, now, tokens>>

\* db.delete(u): the ORM sets user_id of the user's reviews and lists to
\* NULL (relationships without delete cascade), then deletes the row
delete_my_account(q) ==
    /\ Running(q, "delete_my_account")
    /\ users' = users \ UserById(q.u.id)
    /\ reviews' = {IF r.user_id = q.u.id THEN [r EXCEPT !.user_id = NullId] ELSE r
                      : r \in reviews}
    /\ lists' = {IF l.user_id = q.u.id THEN [l EXCEPT !.user_id = NullId] ELSE l
                    : l \in lists}
    /\ last' = Response(q, 0, "", 200, "Deleted")
    /\ Finish(q)
    /\ UNCHANGED <<movies, seqs, now, tokens>>

\* get_all_users, get_stats: they read only
admin_read(q) ==
    /\ q \in Pending
    /\ q.handler \in {"get_all_users", "get_stats"}
    /\ last' = Response(q, 0, "", 200, "")
    /\ Finish(q)
    /\ UNCHANGED <<db, seqs, now, tokens>>

\* ------------------------------------------------------------------ Movie
\* fetch_popular_movies answers any part of the catalog ([] on failure)
sync_movies ==
    LET q == Public("POST", <<"movies", "sync">>, "sync_movies")
    IN  /\ Routed(q)
        /\ \E tmdb_movies \in SUBSET TmdbCatalog :
            LET new == {m \in tmdb_movies : MovieById(m.id) = {}}
            IN  /\ Cardinality(movies \cup new) <= MaxMovies
                /\ movies' = movies \cup new
        /\ last' = Response(q, 0, "", 200, "synced")
        /\ UNCHANGED <<users, reviews, lists, seqs, now, tokens, inflight>>

\* id = int(datetime.now().timestamp()): the clock's reading
create_movie(q) ==
    /\ Running(q, "create_movie")
    /\ \E title \in NewTitles :
        IF MovieById(now) # {}   \* duplicate primary key: IntegrityError
        THEN /\ last' = ServerError(q, now, title)
             /\ UNCHANGED movies
        ELSE /\ Cardinality(movies) < MaxMovies
             /\ movies' = movies \cup {[id |-> now, title |-> title]}
             /\ last' = Response(q, now, title, 200, "")
    /\ Finish(q)
    /\ UNCHANGED <<users, reviews, lists, seqs, now, tokens>>

update_movie(q) ==
    /\ Running(q, "update_movie")
    /\ \E movie_id \in KnownMovieIds, title \in Titles :
        /\ movies' = {IF m.id = movie_id THEN [m EXCEPT !.title = title] ELSE m : m \in movies}
        /\ last' = Response(q, movie_id, title, 200, "updated")
    /\ Finish(q)
    /\ UNCHANGED <<users, reviews, lists, seqs, now, tokens>>

\* a review or a list row that references the movie: a database that
\* enforces foreign keys refuses the DELETE, one that does not deletes
delete_movie(q) ==
    /\ Running(q, "delete_movie")
    /\ \E movie_id \in KnownMovieIds :
        LET referenced == \/ \E r \in reviews : r.movie_id = movie_id
                          \/ \E l \in lists : movie_id \in l.movies
        IN  \/ /\ referenced /\ MovieById(movie_id) # {}
               /\ last' = ServerError(q, movie_id, "")
               /\ UNCHANGED movies
            \/ /\ movies' = movies \ MovieById(movie_id)
               /\ last' = Deleted(q, movie_id, MovieById(movie_id))
    /\ Finish(q)
    /\ UNCHANGED <<users, reviews, lists, seqs, now, tokens>>

\* ----------------------------------------------------------------- Review
\* the row's user or movie is missing: a database that enforces foreign keys
\* refuses the INSERT, one that does not inserts
add_review(q) ==
    /\ Running(q, "add_review")
    /\ \E movie_id \in KnownMovieIds, content \in NewContents :
        \/ /\ UserById(q.u.id) = {} \/ MovieById(movie_id) = {}
           /\ last' = ServerError(q, movie_id, content)
           /\ UNCHANGED <<reviews, nextReviewId>>
        \/ /\ nextReviewId <= MaxReviewId
           /\ reviews' = reviews \cup
                  {[id |-> nextReviewId, content |-> content,
                    user_id |-> q.u.id, movie_id |-> movie_id]}
           /\ nextReviewId' = nextReviewId + 1
           /\ last' = Response(q, nextReviewId, content, 200, "")
    /\ Finish(q)
    /\ UNCHANGED <<users, movies, lists, nextUserId, nextListId, now, tokens>>

\* where(Review.id == review_id, Review.user_id == u.id)
review_of_anyone(review_id, u) == {r \in reviews : r.id = review_id}

review_of(review_id, u) == {r \in reviews : r.id = review_id /\ r.user_id = u.id}

update_review(q) ==
    /\ Running(q, "update_review")
    /\ \E review_id \in ReviewIdInputs, content \in Contents :
        LET found == review_of(review_id, q.u)
        IN  IF found = {}
            THEN /\ last' = Response(q, review_id, content, 403, "Not your review")
                 /\ UNCHANGED reviews
            ELSE /\ reviews' = (reviews \ found) \cup {[TheOne(found) EXCEPT !.content = content]}
                 /\ last' = Response(q, review_id, content, 200, "")
    /\ Finish(q)
    /\ UNCHANGED <<users, movies, lists, seqs, now, tokens>>

delete_review_or_404(q) ==
    /\ Running(q, "delete_review")
    /\ \E review_id \in ReviewIdInputs :
        /\ reviews' = reviews \ review_of(review_id, q.u)
        /\ last' = IF review_of(review_id, q.u) = {}
                   THEN Response(q, review_id, "", 404, "Not found")
                   ELSE Deleted(q, review_id, review_of(review_id, q.u))
    /\ Finish(q)
    /\ UNCHANGED <<users, movies, lists, seqs, now, tokens>>

delete_review(q) ==
    /\ Running(q, "delete_review")
    /\ \E review_id \in ReviewIdInputs :
        /\ reviews' = reviews \ review_of(review_id, q.u)
        /\ last' = Deleted(q, review_id, review_of(review_id, q.u))
    /\ Finish(q)
    /\ UNCHANGED <<users, movies, lists, seqs, now, tokens>>

\* ---------------------------------------------------------- Personal List
\* movies: the ids of the list's rows of movie_list_association
create_list(q) ==
    /\ Running(q, "create_list")
    /\ \E title \in NewTitles :
        \/ /\ UserById(q.u.id) = {}
           /\ last' = ServerError(q, 0, title)
           /\ UNCHANGED <<lists, nextListId>>
        \/ /\ nextListId <= MaxListId
           /\ lists' = lists \cup
                  {[id |-> nextListId, title |-> title, user_id |-> q.u.id, movies |-> {}]}
           /\ nextListId' = nextListId + 1
           /\ last' = Response(q, nextListId, title, 200, "")
    /\ Finish(q)
    /\ UNCHANGED <<users, movies, reviews, nextUserId, nextReviewId, now, tokens>>

\* where(PersonalList.id == list_id, PersonalList.user_id == u.id)
list_of(list_id, u) == {l \in lists : l.id = list_id /\ l.user_id = u.id}

update_list(q) ==
    /\ Running(q, "update_list")
    /\ \E list_id \in ListIdInputs, title \in Titles :
        /\ lists' = {IF l \in list_of(list_id, q.u) THEN [l EXCEPT !.title = title] ELSE l
                        : l \in lists}
        /\ last' = Response(q, list_id, title, 200, "updated")
    /\ Finish(q)
    /\ UNCHANGED <<users, movies, reviews, seqs, now, tokens>>

\* an association row that references the list: refused where foreign keys
\* are enforced
delete_list(q) ==
    /\ Running(q, "delete_list")
    /\ \E list_id \in ListIdInputs :
        \/ /\ \E l \in list_of(list_id, q.u) : l.movies # {}
           /\ last' = ServerError(q, list_id, "")
           /\ UNCHANGED lists
        \/ /\ lists' = lists \ list_of(list_id, q.u)
           /\ last' = Deleted(q, list_id, list_of(list_id, q.u))
    /\ Finish(q)
    /\ UNCHANGED <<users, movies, reviews, seqs, now, tokens>>

\* where(PersonalList.id == list_id) of add_to_list and remove_from_list
list_to_edit(list_id, u) == ListById(list_id)

add_to_list(q) ==
    /\ Running(q, "add_to_list")
    /\ \E list_id \in ListIdInputs, movie_id \in KnownMovieIds :
        LET found == list_to_edit(list_id, q.u)
        IN  IF found = {} \/ MovieById(movie_id) = {}
            \* scalar_one() raises NoResultFound; None in l.movies fails the flush
            THEN /\ last' = ServerError(q, list_id, "")
                 /\ UNCHANGED lists
            ELSE /\ lists' = (lists \ found) \cup
                        {[TheOne(found) EXCEPT !.movies = @ \cup {movie_id}]}
                 /\ last' = Response(q, list_id, "", 200, "added")
    /\ Finish(q)
    /\ UNCHANGED <<users, movies, reviews, seqs, now, tokens>>

remove_from_list(q) ==
    /\ Running(q, "remove_from_list")
    /\ \E list_id \in ListIdInputs, movie_id \in KnownMovieIds :
        LET found == list_to_edit(list_id, q.u)
        IN  IF found = {}
            THEN /\ last' = ServerError(q, list_id, "")
                 /\ UNCHANGED lists
            ELSE /\ lists' = (lists \ found) \cup
                        {[TheOne(found) EXCEPT !.movies = @ \ {m.id : m \in MovieById(movie_id)}]}
                 /\ last' = Response(q, list_id, "", 200, "removed")
    /\ Finish(q)
    /\ UNCHANGED <<users, movies, reviews, seqs, now, tokens>>

\* ----------------------------------------------------------- specifications
AuthEndpoints == {Req("GET", <<"users", "me">>), Req("PUT", <<"users", "me">>),
                  Req("DELETE", <<"users", "me">>)}

\* DELETE /users/me overlaps the request in flight, every other request runs alone
AccountEnd == {Req("DELETE", <<"users", "me">>)}

NextAuth ==
    \/ Tick
    \/ register(Emails)
    \/ login(Emails)
    \/ google_login
    \/ \E req \in AuthEndpoints \ AccountEnd, tok \in Presentable :
          Resolve(req, tok, MaxSerial)
    \/ \E req \in AccountEnd, tok \in Presentable : Resolve(req, tok, MaxInflight)
    \/ \E q \in Pending : my_page(q)
    \/ \E q \in Pending : update_my_role(q)
    \/ \E q \in Pending : delete_my_account(q)

SpecAuth == Init /\ [][NextAuth]_vars

AdminEndpoints ==
    {Req("GET", <<"admin", "users">>), Req("GET", <<"admin", "stats">>),
     Req("POST", <<"movies">>), Req("PUT", <<"movies", IntSeg>>),
     Req("DELETE", <<"movies", IntSeg>>), Req("GET", <<"lists", "all">>)}

NextAdmin ==
    \/ register(Emails)
    \/ login(Emails)
    \/ sync_movies
    \/ \E tok \in Presentable : Resolve(Req("PUT", <<"users", "me">>), tok, MaxSerial)
    \/ \E req \in AdminEndpoints, tok \in Presentable : Resolve(req, tok, MaxSerial)
    \/ \E req \in AdminEndpoints, tok \in Presentable : public_request(req, tok)
    \/ \E q \in Pending : update_my_role(q)
    \/ \E q \in Pending : admin_read(q)
    \/ \E q \in Pending : create_movie(q)
    \/ \E q \in Pending : update_movie(q)
    \/ \E q \in Pending : delete_movie(q)

SpecAdmin == Init /\ [][NextAdmin]_vars

ReviewEndpoints ==
    {Req("POST", <<"movies", IntSeg, "reviews">>), Req("PUT", <<"reviews", IntSeg>>),
     Req("DELETE", <<"reviews", IntSeg>>), Req("DELETE", <<"users", "me">>)}

NextReview ==
    \/ register(Emails)
    \/ login(Emails)
    \/ sync_movies
    \/ \E req \in ReviewEndpoints \ AccountEnd, tok \in Presentable :
          Resolve(req, tok, MaxSerial)
    \/ \E req \in AccountEnd, tok \in Presentable : Resolve(req, tok, MaxInflight)
    \/ \E q \in Pending : delete_my_account(q)
    \/ \E q \in Pending : add_review(q)
    \/ \E q \in Pending : update_review(q)
    \/ \E q \in Pending : delete_review(q)

SpecReview == Init /\ [][NextReview]_vars

ListEndpoints ==
    {Req("POST", <<"lists">>), Req("PUT", <<"lists", IntSeg>>),
     Req("DELETE", <<"lists", IntSeg>>),
     Req("POST", <<"lists", IntSeg, "movies", IntSeg>>),
     Req("DELETE", <<"lists", IntSeg, "movies", IntSeg>>)}

NextList ==
    \/ register(Emails)
    \/ login(Emails)
    \/ sync_movies
    \/ \E req \in ListEndpoints, tok \in Presentable : Resolve(req, tok, MaxSerial)
    \/ \E q \in Pending : create_list(q)
    \/ \E q \in Pending : update_list(q)
    \/ \E q \in Pending : delete_list(q)
    \/ \E q \in Pending : add_to_list(q)
    \/ \E q \in Pending : remove_from_list(q)

SpecList == Init /\ [][NextList]_vars

DeleteEndpoints ==
    {Req("DELETE", <<"reviews", IntSeg>>), Req("DELETE", <<"lists", IntSeg>>),
     Req("DELETE", <<"movies", IntSeg>>)}

SetupEndpoints ==
    {Req("PUT", <<"users", "me">>), Req("POST", <<"movies", IntSeg, "reviews">>),
     Req("POST", <<"lists">>)}

\* one user; delete requests overlap one another, every other request runs alone
NextDelete ==
    \/ register(OneEmail)
    \/ login(OneEmail)
    \/ sync_movies
    \/ \E req \in SetupEndpoints, tok \in tokens : Resolve(req, tok, MaxSerial)
    \/ \E req \in DeleteEndpoints, tok \in tokens :
          /\ \A p \in Pending : p.req \in DeleteEndpoints
          /\ Resolve(req, tok, MaxInflight)
    \/ \E q \in Pending : update_my_role(q)
    \/ \E q \in Pending : add_review(q)
    \/ \E q \in Pending : create_list(q)
    \/ \E q \in Pending : delete_review(q)
    \/ \E q \in Pending : delete_list(q)
    \/ \E q \in Pending : delete_movie(q)

SpecDelete == Init /\ [][NextDelete]_vars

\* ------------------------------------------------------------------ steps
\* the requests a step admits to their handler body
Admits == {q \in BagToSet(inflight') : inflight' = inflight (+) SetToBag({q})}
\* the step runs the handler body of q
Done(q) == q \in Pending /\ inflight' = inflight (-) SetToBag({q})
\* the step answers a request from its dependencies, before any handler body
Refused ==
    /\ last' # last
    /\ inflight' = inflight
    /\ Serving[last'.req].auth # "none"

\* ----------------------------------------------------------------- claims
\* C4: every stored User's role is ROLE_USER or ROLE_ADMIN.
C4_RoleIsUserOrAdmin == \A x \in users : x.role \in {ROLE_USER, ROLE_ADMIN}

\* C6: a request whose token decodes but whose subject email has no User is
\* never admitted to a handler body; it is answered 401 and changes nothing.
C6_NoUserNoEntry ==
    [][ /\ \A q \in Admits : UserByEmail(q.tok.sub) # {}
        /\ (Refused /\ jwt_decode_ok(last'.tok) /\ UserByEmail(last'.tok.sub) = {})
              => (last'.status = 401 /\ UNCHANGED <<db, seqs, tokens>>) ]_vars

\* a token issued to a user since deleted, not expired, was answered 401
C6_Witness ==
    /\ last.status = 401 /\ last.msg = "User not found"
    /\ last.tok \in tokens /\ jwt_decode_ok(last.tok)
    /\ last.tok.issued_to # NullId
    /\ UserByEmail(last.tok.sub) = {}

\* C7: register answers 201 and stores one new ROLE_USER User when no User
\* holds the email, answers 409 and leaves the users unchanged when one does;
\* no two Users ever share an email.
C7_Register ==
    [][ /\ (last' # last /\ last'.op = "register") =>
              IF UserByEmail(last'.str) = {}
              THEN /\ last'.status = 201
                   /\ \E x \in users' :
                        /\ x \notin users /\ users' = users \cup {x}
                        /\ x.email = last'.str /\ x.role = ROLE_USER
              ELSE last'.status = 409 /\ users' = users
        /\ \A x, y \in users' : x.email = y.email => x = y ]_vars

C7_Witness ==
    /\ last.op = "register" /\ last.status = 409
    /\ Cardinality(UserByEmail(last.str)) = 1
    /\ Cardinality(users) = 2

\* C8: login answers 401 and issues no token for an unknown email or a
\* password that does not hash to the stored digest; otherwise 200 with a
\* token whose subject is the email and whose role is the stored role, which
\* a User with that email backs, and GET /users/me with a token answers with
\* the User whose email is the token's subject.
C8_Login ==
    [][ /\ (last' # last /\ last'.op = "login") =>
              LET found == UserByEmail(last'.str)
              IN  IF found = {} \/ TheOne(found).hashed_password # get_password_hash(last'.pw)
                  THEN /\ last'.status = 401 /\ last'.issued = NoToken
                       /\ tokens' = tokens
                  ELSE /\ last'.status = 200 /\ last'.issued \in tokens'
                       /\ last'.issued.kind = "jwt"
                       /\ last'.issued.sub = last'.str
                       /\ last'.issued.role = TheOne(found).role
                       /\ last'.issued.exp >= now'
                       /\ \E x \in users' : x.email = last'.str
        /\ \A q \in Admits : q.handler = "my_page" => q.u \in users /\ q.u.email = q.tok.sub
        /\ \A q \in Pending : (Done(q) /\ q.handler = "my_page" /\ last'.status = 200)
                                 => last'.str = q.tok.sub ]_vars

\* a token that only login issues (the role was changed before the login)
\* was presented on GET /users/me and answered with its subject's User
C8_Witness ==
    /\ last.op = "my_page" /\ last.status = 200
    /\ last.tok \in tokens /\ last.str = last.tok.sub
    /\ last.tok.sub \in OneEmail
    /\ last.tok.role # ROLE_USER

\* C10: a token is bound to its subject email only: while a User holds the
\* email and the token is not expired, the token is never answered 401, and it
\* is admitted as the User who holds the email now, whoever it was issued to.
C10_TokenBoundToEmail ==
    [][ /\ \A q \in Admits : q.u \in users /\ q.u.email = q.tok.sub
        /\ (Refused /\ jwt_decode_ok(last'.tok) /\ UserByEmail(last'.tok.sub) # {})
              => last'.status # 401 ]_vars

\* a token issued to a deleted account is in a handler as the new account
C10_Witness ==
    \E q \in Pending :
        /\ q.u \in users /\ q.tok.issued_to # q.u.id
        /\ UserById(q.tok.issued_to) = {}
        /\ q.tok.sub = q.u.email

\* C3: the movies change only in a step that runs the handler body of a
\* request whose caller resolved to a User with the admin role.
C3_MoviesOnlyByAdmin ==
    [][ movies' # movies => \E q \in Pending : Done(q) /\ q.u.role = ROLE_ADMIN ]_vars

\* C5: a request to an admin-only endpoint with a token that resolves to a
\* User is admitted iff that User's stored role is ROLE_ADMIN, and otherwise
\* answered 403 without any change.
C5_AdminEndpoints ==
    [][ /\ \A q \in Admits : q.req \in AdminEndpoints =>
              TheOne(UserByEmail(q.tok.sub)).role = ROLE_ADMIN
        /\ (/\ last' # last /\ inflight' = inflight
            /\ last'.req \in AdminEndpoints
            /\ get_current_user(last'.tok).ok)
              => /\ last'.status = 403
                 /\ TheOne(UserByEmail(last'.tok.sub)).role # ROLE_ADMIN
                 /\ UNCHANGED <<db, seqs, tokens>> ]_vars

\* the same for the admin-only endpoints that their own route serves
C5_GuardedRoutes ==
    [][ /\ \A q \in Admits : Serving[q.req].auth = "admin" =>
              TheOne(UserByEmail(q.tok.sub)).role = ROLE_ADMIN
        /\ (/\ last' # last /\ inflight' = inflight
            /\ Serving[last'.req].auth = "admin"
            /\ get_current_user(last'.tok).ok)
              => /\ last'.status = 403
                 /\ TheOne(UserByEmail(last'.tok.sub)).role # ROLE_ADMIN
                 /\ UNCHANGED <<db, seqs, tokens>> ]_vars

\* C1: a PUT or DELETE /reviews/{id} of a caller who is not the owner of a
\* review leaves that review as it is; the DELETE with that review's id is
\* answered 200 {"msg": "deleted"} and removes no review.
C1_ReviewOwnership ==
    [][ \A q \in Pending, r \in reviews :
          (Done(q) /\ q.handler \in {"update_review", "delete_review"} /\ q.u.id # r.user_id)
             => /\ r \in reviews'
                /\ (q.handler = "delete_review" /\ last'.arg = r.id)
                      => /\ last'.status = 200 /\ last'.msg = "deleted"
                         /\ last'.rows = 0 /\ reviews' = reviews ]_vars

\* user B's DELETE of the review of user A, both stored, was answered
C1_Witness ==
    /\ last.op = "delete_review" /\ last.status = 200 /\ last.rows = 0
    /\ UserById(last.uid) # {}
    /\ \E r \in ReviewById(last.arg) : r.user_id # last.uid /\ UserById(r.user_id) # {}

\* C2: a request to update_list, delete_list, add_to_list or remove_from_list
\* of a caller who is not the owner of a list leaves that list as it is.
C2_ListOwnership ==
    [][ \A q \in Pending, l \in lists :
          (/\ Done(q) /\ q.u.id # l.user_id
           /\ q.handler \in {"update_list", "delete_list", "add_to_list", "remove_from_list"})
             => l \in lists' ]_vars

\* the same for update_list and delete_list alone
C2_UpdateDeleteOwnership ==
    [][ \A q \in Pending, l \in lists :
          (Done(q) /\ q.u.id # l.user_id /\ q.handler \in {"update_list", "delete_list"})
             => l \in lists' ]_vars

\* the row that DELETE /<kind>/{id} names is not stored
Missing(handler, id) ==
    CASE handler = "delete_review" -> ReviewById(id) = {}
      [] handler = "delete_list" -> ListById(id) = {}
      [] handler = "delete_movie" -> MovieById(id) = {}
      [] OTHER -> FALSE

\* C9: DELETE /reviews/{id}, /lists/{id} or /movies/{id} for an id that is
\* not stored (never created, or deleted before, also by a request that ran
\* in between) is answered 200 {"msg": "deleted"} and changes nothing.
C9_DeleteIdempotent ==
    [][ \A q \in Pending :
          (Done(q) /\ Missing(q.handler, last'.arg))
             => /\ last'.status = 200 /\ last'.msg = "deleted" /\ last'.rows = 0
                /\ UNCHANGED <<db, seqs>> ]_vars

\* a review that was stored is gone, its DELETE was answered once more, and
\* another DELETE is in flight
C9_Witness ==
    /\ last.op = "delete_review" /\ last.status = 200 /\ last.rows = 0
    /\ last.arg < nextReviewId /\ ReviewById(last.arg) = {}
    /\ \E q \in Pending : q.handler = "delete_review"
====
